---- MODULE Spec2Model ----
(***************************************************************************)
(* A model of the universal-playwright-framework API client                *)
(* (src/src/api/api-client.ts).  One ApiClient instance, the HTTP          *)
(* transport it drives, and the calls made on it.  Every `await` of the    *)
(* source is a step boundary: an action is the code that runs              *)
(* synchronously between two awaits.  The test data factory                *)
(* (src/unnamed/part_003) is modelled next to it: its functions are        *)
(* operators over the clock readings and the random draws they consume.    *)
(* TestUtils.retry (src/README.md) and BasePage.handleDialog               *)
(* (src/unnamed/part_006) follow, each with a specification of its own.    *)
(***************************************************************************)
EXTENDS Integers, Sequences, FiniteSets, TLC

\* ------------------------------------------------------------------ bounds

\* callers holding a call frame on the client
NumTasks == 2
\* transport contexts one client may open in a run
MaxContexts == 2
\* largest maxAttempts handed to waitForApiReady
MaxAttemptsBound == 3
\* milliseconds the clock moves on during a run of the factory
MaxTicks == 1
\* generateUser calls in a run of the factory, those of generateUsers included
MaxIssued == 4
\* largest count handed to generateUsers
MaxCount == 4
\* handleDialog calls on one page object
MaxHandlers == 2

Tasks == 1..NumTasks
\* the single caller of a sequential run (each call awaited before the next)
SeqTasks == {1}

\* ----------------------------------------------------------------- headers

\* a header mapping: a function from header names to values (token tuples)
EmptyHeaders == [k \in {} |-> <<>>]

OneHeader(k, v) == [x \in {k} |-> v]

\* { ...a, ...b }: object spread, the right operand wins on a shared key
Spread(a, b) ==
  [k \in (DOMAIN a) \cup (DOMAIN b) |-> IF k \in DOMAIN b THEN b[k] ELSE a[k]]

\* delete o[k]
Delete(o, k) == [x \in (DOMAIN o) \ {k} |-> o[x]]

Json == <<"application", "/", "json">>

\* `Bearer ${token}`
Bearer(token) == <<"Bearer", token>>

Tokens == {"t1"}

\* the defaultHeaders argument of the constructor
CtorHeaders == {EmptyHeaders, OneHeader("Authorization", Bearer("t1"))}

\* constructor: built-in JSON negotiation headers, then the caller's
constructor(hdrs) ==
  Spread(Spread(OneHeader("Content-Type", Json), OneHeader("Accept", Json)), hdrs)

\* o.k, or d when o has no key k (a destructuring default, `o.k || d`)
Field(o, k, d) == IF k \in DOMAIN o THEN o[k] ELSE d

\* JavaScript values passed as a request body, by their source text
Undefined == "undefined"
DataValues == {Undefined, "0", "{user}"}

\* the falsy values: `if (data)` skips them
Truthy(v) == v \notin {Undefined, "null", "0", "false", "''", "NaN"}

\* a path is a tuple of tokens, "?" and "&" being tokens of their own
ItemsPath == <<"/items">>
HealthPath == <<"/health">>
UploadPath == <<"/upload">>

\* encodeURIComponent-style encoding of a key or value by URLSearchParams
Encode(v) ==
  CASE v = "a b" -> "a+b"
    [] v = "x&y" -> "x%26y"
    [] OTHER -> v

\* new URLSearchParams(params).toString(): k=v pairs joined by "&"
RECURSIVE SearchParamsToString(_)
SearchParamsToString(params) ==
  IF params = <<>> THEN <<>>
  ELSE LET p == Head(params)
           pair == <<Encode(p[1]), "=", Encode(p[2])>>
       IN IF Tail(params) = <<>> THEN pair
          ELSE pair \o <<"&">> \o SearchParamsToString(Tail(params))

\* per-call RequestOptions: every key is optional
NoOptions == EmptyHeaders

\* the (url, options) pairs callers pass to a verb method; params is the
\* list of the mapping's entries
CallInputs ==
  { [url |-> ItemsPath, options |-> NoOptions],
    [url |-> ItemsPath,
     options |-> [headers |-> OneHeader("Authorization", Bearer("call")),
                  timeout |-> 0]],
    [url |-> ItemsPath \o <<"?", "x=1">>,
     options |-> [params |-> << <<"q", "a b">> >>, timeout |-> 5000]],
    [url |-> ItemsPath, options |-> [params |-> <<>>]] }

\* uploadFile's fieldName and additionalData arguments
FieldNames == {"file"}
AdditionalData ==
  { EmptyHeaders, OneHeader("title", <<"demo">>), OneHeader("file", <<"demo">>) }

\* require('fs').createReadStream(filePath)
ReadStream(filePath) == <<"stream", filePath>>

\* ---------------------------------------------------------------- results

NotInitialized == "API client not initialized"
NotReady == "API failed to become ready within timeout"
\* whatever error the transport raises (DNS, refused, timeout, closed)
TransportFault == "transport fault"

Error(msg) == [kind |-> "error", msg |-> msg]
Void == [kind |-> "void"]
Bool(b) == [kind |-> "bool", val |-> b]
\* the outcome of a call that has not settled
Pending == [kind |-> "pending"]

Null == [kind |-> "null"]
Parsed(body) == [kind |-> "json", of |-> body]
Text(body) == [kind |-> "text", of |-> body]

\* ---------------------------------------------------------- the transport

Statuses == {200, 299, 300, 404}

\* response.ok() of the transport: the 2xx range
ResponseOk(status) == status >= 200 /\ status <= 299

\* response.headers(): with or without a content-type
ResponseHeaders ==
  { EmptyHeaders,
    OneHeader("content-type", Json),
    OneHeader("content-type", Json \o <<";", "charset=utf-8">>),
    OneHeader("content-type", <<"text", "/", "html">>) }

Responses == [status : Statuses, headers : ResponseHeaders]

NoResp == [status |-> 0, headers |-> EmptyHeaders]

JsonBody == "{\"id\":1}"
NoBody == [text |-> "", readFails |-> FALSE]
\* what reading a response's body can meet: JSON text, other text, or a
\* failed read
Bodies ==
  { [text |-> JsonBody, readFails |-> FALSE],
    [text |-> "<html>", readFails |-> FALSE],
    [text |-> "", readFails |-> TRUE] }

\* response.json(): throws when the body cannot be read or is not JSON
JsonThrows(body, readFails) == readFails \/ body # JsonBody
\* response.text(): throws when the body cannot be read
TextThrows(body, readFails) == readFails

\* String.prototype.includes on token tuples
Includes(hay, needle) ==
  \E i \in 0..(Len(hay) - Len(needle)) :
    SubSeq(hay, i + 1, i + Len(needle)) = needle

\* ------------------------------------------------------------------ state

VARIABLES
  context,         \* this.context: 0 is null, else the id of a transport context
  defaultHeaders,  \* this.defaultHeaders
  ctxs,            \* the transport's contexts, by id: open, extra headers, releases
  calls,           \* per caller: the call it last made and where that call stands
  clock,           \* the process clock: whole hours since a midnight UTC, and ms
  zone,            \* the time zone of the process
  issued,          \* the generateUser calls so far: first name, Date.now(), email
  returned,        \* the last call on the test data factory and what it returned
  retryCall,       \* the TestUtils.retry call in progress and its history
  listeners,       \* the 'dialog' listeners of the page, in registration order
  dialog           \* the last dialog that appeared on the page and its answers

clientVars == <<context, defaultHeaders, ctxs, calls>>
factoryVars == <<clock, zone, issued, returned>>
helperVars == <<retryCall, listeners, dialog>>
vars == <<context, defaultHeaders, ctxs, calls, clock, zone, issued, returned,
          retryCall, listeners, dialog>>

\* a call on the transport: the context, the method, the url and the
\* method's options
NoReq == [ctx |-> 0, method |-> "", url |-> <<>>]

\* a call as it is entered: nothing sent, nothing received
NewFrame(op) ==
  [ op |-> op, pc |-> "done", result |-> Void,
    ctxAtCall |-> context,  \* this.context when the call was made
    hdrsAtCall |-> defaultHeaders,  \* this.defaultHeaders at that moment
    callHeaders |-> EmptyHeaders,   \* the headers option of the call
    args |-> EmptyHeaders,  \* the arguments the request was built from
    \* a dispose of this.context was awaiting the transport at that moment
    disposing |-> \E u \in Tasks : /\ calls[u].pc = "dispose_await"
                                  /\ calls[u].req.ctx = context,
    req |-> NoReq,          \* the last request handed to the transport
    nsent |-> 0,            \* requests handed to the transport
    nstreams |-> 0,         \* file streams opened
    fault |-> FALSE,        \* the transport rejected the last request
    resp |-> NoResp,        \* the last response the transport returned
    body |-> NoBody,        \* what reading that response's body met
    inner |-> Pending,      \* the outcome of the last get made by healthCheck
    wrap |-> "none",        \* the caller of makeRequest: none, health, ready
    attempt |-> 0, maxAttempts |-> 0, delay |-> 0,
    polls |-> 0,            \* healthCheck calls started by waitForApiReady
    healths |-> <<>>,       \* their results, in order
    sleeps |-> <<>> ]       \* the setTimeout delays awaited, in order

Idle ==
  [op |-> "idle", pc |-> "idle", result |-> Void, ctxAtCall |-> 0,
   hdrsAtCall |-> EmptyHeaders, callHeaders |-> EmptyHeaders,
   args |-> EmptyHeaders, disposing |-> FALSE, req |-> NoReq, nsent |-> 0,
   nstreams |-> 0, fault |-> FALSE, resp |-> NoResp, body |-> NoBody,
   inner |-> Pending, wrap |-> "none", attempt |-> 0, maxAttempts |-> 0,
   delay |-> 0, polls |-> 0, healths |-> <<>>, sleeps |-> <<>>]

Callable(t) == calls[t].pc \in {"idle", "done"}

VerbOps == {"get", "post", "put", "patch", "delete"}

\* the method each verb passes to the private makeRequest; its `default:`
\* branch (unsupported method) is not reachable through the public methods
Method(op) ==
  CASE op = "get" -> "GET"
    [] op = "post" -> "POST"
    [] op = "put" -> "PUT"
    [] op = "patch" -> "PATCH"
    [] op = "delete" -> "DELETE"

OpenContexts == {i \in DOMAIN ctxs : ctxs[i].open}

Initing == {t \in Tasks : calls[t].pc = "init_await"}

\* the headers the transport puts on the wire for a request: the extra HTTP
\* headers its context was created with, under the request's own headers
SentHeaders(req) ==
  Spread(ctxs[req.ctx].extra, Field(req, "headers", EmptyHeaders))

\* ------------------------------------------------- the client's functions

\* processResponse with a throw on a non-2xx status
processResponseThrowsOnError(resp, body, readFails) ==
  IF ResponseOk(resp.status)
  THEN [kind |-> "envelope", status |-> resp.status, headers |-> resp.headers,
        data |-> Text(body), ok |-> TRUE]
  ELSE Error("API request failed")

\* processResponse without the try/catch around the body read
processResponseNoCatch(resp, body, readFails) ==
  LET contentType ==
        IF "content-type" \in DOMAIN resp.headers
        THEN resp.headers["content-type"] ELSE <<>>
      isJson == Includes(contentType, Json)
  IN IF (isJson /\ JsonThrows(body, readFails))
        \/ (~isJson /\ TextThrows(body, readFails))
     THEN Error("body read failed")
     ELSE [kind |-> "envelope", status |-> resp.status,
           headers |-> resp.headers,
           data |-> IF isJson THEN Parsed(body) ELSE Text(body),
           ok |-> ResponseOk(resp.status)]

\* processResponse: the envelope built from a response and from what reading
\* its body meets; a decode failure is caught and leaves data null
processResponse(resp, body, readFails) ==
  LET status == resp.status
      headers == resp.headers
      ok == ResponseOk(resp.status)
      contentType ==
        IF "content-type" \in DOMAIN headers THEN headers["content-type"] ELSE <<>>
      data ==
        IF Includes(contentType, Json)
        THEN IF JsonThrows(body, readFails) THEN Null ELSE Parsed(body)
        ELSE IF TextThrows(body, readFails) THEN Null ELSE Text(body)
  IN [kind |-> "envelope", status |-> status, headers |-> headers,
      data |-> data, ok |-> ok]

\* healthCheck without its try/catch: what the get threw is thrown on
healthCheckReturnThrows(outcome) ==
  IF outcome.kind = "envelope" THEN Bool(outcome.ok) ELSE outcome

\* healthCheck returning true for any response, whatever its ok flag
healthCheckReturnIgnoresOk(outcome) ==
  IF outcome.kind = "envelope" THEN Bool(TRUE) ELSE Bool(FALSE)

\* healthCheck's return, given how its get('/health') settled: the envelope's
\* ok flag, and false for anything the get threw
healthCheckReturn(outcome) ==
  IF outcome.kind = "envelope" THEN Bool(outcome.ok) ELSE Bool(FALSE)

\* waitForApiReady sleeping after every failed poll, the last one included
waitForApiReadyNextSleepsLast(f, h) ==
  LET g == [f EXCEPT !.healths = Append(@, h)]
  IN IF h
     THEN [g EXCEPT !.pc = "done", !.result = Void]
     ELSE [g EXCEPT !.pc = "delay_await", !.sleeps = Append(@, g.delay)]

\* waitForApiReady after `await this.healthCheck()` gave h: return, sleep
\* before the next attempt, or leave the loop and throw
waitForApiReadyNext(f, h) ==
  LET g == [f EXCEPT !.healths = Append(@, h)]
  IN IF h
     THEN [g EXCEPT !.pc = "done", !.result = Void]
     ELSE IF g.attempt < g.maxAttempts
          THEN [g EXCEPT !.pc = "delay_await", !.sleeps = Append(@, g.delay)]
          ELSE [g EXCEPT !.pc = "done", !.result = Error(NotReady),
                         !.attempt = @ + 1]

\* the synchronous continuation of a call once its makeRequest or
\* processResponse has settled with `outcome`, through the callers' frames
Settle(f, outcome) ==
  CASE f.wrap = "none" ->
         [f EXCEPT !.pc = "done", !.result = outcome]
    [] f.wrap = "health" ->
         [f EXCEPT !.pc = "done", !.result = healthCheckReturn(outcome),
                   !.inner = outcome]
    [] f.wrap = "ready" ->
         LET h == healthCheckReturn(outcome)
             g == [f EXCEPT !.inner = outcome]
         IN IF h.kind = "bool"
            THEN waitForApiReadyNext(g, h.val)
            ELSE [g EXCEPT !.pc = "done", !.result = h]

DefaultTimeout == 30000

\* makeRequest merging the headers the other way round: the defaults win
RequestOfDefaultsWin(method, url, options) ==
  LET headers == Field(options, "headers", EmptyHeaders)
      data == Field(options, "data", Undefined)
      timeout ==
        IF "timeout" \in DOMAIN options /\ options.timeout # 0
        THEN options.timeout ELSE DefaultTimeout
      mergedHeaders == Spread(headers, defaultHeaders)
      requestOptions ==
        Spread([headers |-> mergedHeaders,
                timeout |-> timeout],
               IF Truthy(data) THEN [data |-> data] ELSE EmptyHeaders)
      sentUrl ==
        IF "params" \in DOMAIN options
        THEN url \o <<IF Includes(url, <<"?">>) THEN "&" ELSE "?">>
                 \o SearchParamsToString(options.params)
        ELSE url
  IN Spread([ctx |-> context, method |-> method, url |-> sentUrl],
            requestOptions)

\* the url and options makeRequest hands to the transport
RequestOf(method, url, options) ==
  LET headers == Field(options, "headers", EmptyHeaders)
      data == Field(options, "data", Undefined)
      \* `timeout || 30000`: an absent timeout and 0 are both falsy
      timeout ==
        IF "timeout" \in DOMAIN options /\ options.timeout # 0
        THEN options.timeout ELSE DefaultTimeout
      mergedHeaders == Spread(defaultHeaders, headers)
      requestOptions ==
        Spread([headers |-> mergedHeaders,
                timeout |-> timeout],
               IF Truthy(data) THEN [data |-> data] ELSE EmptyHeaders)
      sentUrl ==
        IF "params" \in DOMAIN options
        THEN url \o <<IF Includes(url, <<"?">>) THEN "&" ELSE "?">>
                 \o SearchParamsToString(options.params)
        ELSE url
  IN Spread([ctx |-> context, method |-> method, url |-> sentUrl],
            requestOptions)

\* makeRequest without the context check
makeRequestNoCheck(f, method, url, options) ==
  [f EXCEPT !.pc = "req_await",
            !.req = RequestOf(method, url, options),
            !.callHeaders = Field(options, "headers", EmptyHeaders),
            !.args = [url |-> url, options |-> options],
            !.nsent = @ + 1, !.fault = FALSE]

\* makeRequest refusing a call made while a dispose is in progress
makeRequestRefusesWhileDisposing(f, method, url, options) ==
  IF context = 0 \/ f.disposing
  THEN Settle(f, Error(NotInitialized))
  ELSE [f EXCEPT !.pc = "req_await",
                 !.req = RequestOf(method, url, options),
                 !.callHeaders = Field(options, "headers", EmptyHeaders),
                 !.args = [url |-> url, options |-> options],
                 !.nsent = @ + 1, !.fault = FALSE]

\* makeRequest up to its first await: the context check, the request
\* options, the url and the dispatch on the transport
makeRequest(f, method, url, options) ==
  IF context = 0
  THEN Settle(f, Error(NotInitialized))
  ELSE [f EXCEPT !.pc = "req_await",
                 !.req = RequestOf(method, url, options),
                 !.callHeaders = Field(options, "headers", EmptyHeaders),
                 !.args = [url |-> url, options |-> options],
                 !.nsent = @ + 1, !.fault = FALSE]

\* the delay argument of waitForApiReady, in ms
Delays == {10}

\* one turn of waitForApiReady's for loop, from its condition to the first await
waitForApiReadyLoop(f) ==
  IF f.attempt <= f.maxAttempts
  THEN makeRequest([f EXCEPT !.polls = @ + 1], "GET", HealthPath, NoOptions)
  ELSE [f EXCEPT !.pc = "done", !.result = Error(NotReady)]

\* ---------------------------------------------------------------- actions

\* init(), to `await request.newContext(...)`; the transport reads the
\* extra headers when it is called
init(t) ==
  /\ Callable(t)
  /\ Len(ctxs) + Cardinality(Initing) < MaxContexts
  /\ calls' = [calls EXCEPT ![t] =
       [NewFrame("init") EXCEPT !.pc = "init_await",
                                !.req = [ctx |-> 0, method |-> "newContext", url |-> <<>>,
                                         extraHTTPHeaders |-> defaultHeaders]]]
  /\ UNCHANGED <<context, defaultHeaders, ctxs, factoryVars, helperVars>>

\* newContext resolved: this.context = the new context
initResume(t) ==
  /\ calls[t].pc = "init_await"
  /\ ctxs' = Append(ctxs, [open |-> TRUE, extra |-> calls[t].req.extraHTTPHeaders,
                           releases |-> 0])
  /\ context' = Len(ctxs) + 1
  /\ calls' = [calls EXCEPT ![t].pc = "done", ![t].result = Void,
                            ![t].req.ctx = Len(ctxs) + 1]
  /\ UNCHANGED <<defaultHeaders, factoryVars, helperVars>>

\* newContext rejected: init throws before the assignment
initFails(t) ==
  /\ calls[t].pc = "init_await"
  /\ calls' = [calls EXCEPT ![t].pc = "done",
                            ![t].result = Error(TransportFault)]
  /\ UNCHANGED <<context, defaultHeaders, ctxs, factoryVars, helperVars>>

\* dispose(), to `await this.context.dispose()`; a no-op without a context
dispose(t) ==
  /\ Callable(t)
  /\ calls' = [calls EXCEPT ![t] =
       IF context # 0
       THEN [NewFrame("dispose") EXCEPT !.pc = "dispose_await",
                                        !.req = [ctx |-> context, method |-> "dispose",
                                                 url |-> <<>>]]
       ELSE NewFrame("dispose")]
  /\ UNCHANGED <<context, defaultHeaders, ctxs, factoryVars, helperVars>>

\* dispose forgetting `this.context = null` after the release
disposeResumeKeepsContext(t) ==
  /\ calls[t].pc = "dispose_await"
  /\ ctxs' = [ctxs EXCEPT ![calls[t].req.ctx].open = FALSE,
                          ![calls[t].req.ctx].releases = @ + 1]
  /\ calls' = [calls EXCEPT ![t].pc = "done", ![t].result = Void]
  /\ UNCHANGED <<context, defaultHeaders, factoryVars, helperVars>>

\* a dispose whose completion also ends the readiness polls that are waiting
\* for their next attempt
disposeResumeCancelsPolls(t) ==
  /\ calls[t].pc = "dispose_await"
  /\ ctxs' = [ctxs EXCEPT ![calls[t].req.ctx].open = FALSE,
                          ![calls[t].req.ctx].releases = @ + 1]
  /\ context' = 0
  /\ calls' =
       [u \in Tasks |->
          IF u = t THEN [calls[u] EXCEPT !.pc = "done", !.result = Void]
          ELSE IF calls[u].pc = "delay_await"
               THEN [calls[u] EXCEPT !.pc = "done",
                                     !.result = Error(NotInitialized)]
               ELSE calls[u]]
  /\ UNCHANGED <<defaultHeaders, factoryVars, helperVars>>

\* the transport released the context: this.context = null
disposeResume(t) ==
  /\ calls[t].pc = "dispose_await"
  /\ ctxs' = [ctxs EXCEPT ![calls[t].req.ctx].open = FALSE,
                          ![calls[t].req.ctx].releases = @ + 1]
  /\ context' = 0
  /\ calls' = [calls EXCEPT ![t].pc = "done", ![t].result = Void]
  /\ UNCHANGED <<defaultHeaders, factoryVars, helperVars>>

\* a failed dispose that forgets the context all the same
disposeFailsDropsContext(t) ==
  /\ calls[t].pc = "dispose_await"
  /\ calls' = [calls EXCEPT ![t].pc = "done",
                            ![t].result = Error(TransportFault)]
  /\ context' = 0
  /\ UNCHANGED <<defaultHeaders, ctxs, factoryVars, helperVars>>

\* the transport's dispose rejected: dispose throws before the assignment,
\* and the context counts as not released
disposeFails(t) ==
  /\ calls[t].pc = "dispose_await"
  /\ calls' = [calls EXCEPT ![t].pc = "done",
                            ![t].result = Error(TransportFault)]
  /\ UNCHANGED <<context, defaultHeaders, ctxs, factoryVars, helperVars>>

\* setAuthToken writing through to the header objects of the requests in
\* flight, as if makeRequest handed this.defaultHeaders itself to the transport
setAuthTokenSharedHeaders(t) ==
  /\ Callable(t)
  /\ \E token \in Tokens :
       /\ defaultHeaders' =
            Spread(defaultHeaders, OneHeader("Authorization", Bearer(token)))
       /\ calls' =
            [u \in Tasks |->
               IF u = t THEN NewFrame("setAuthToken")
               ELSE IF calls[u].pc = "req_await"
                    THEN [calls[u] EXCEPT !.req.headers =
                            Spread(@, OneHeader("Authorization", Bearer(token)))]
                    ELSE calls[u]]
  /\ UNCHANGED <<context, ctxs, factoryVars, helperVars>>

setAuthToken(t) ==
  /\ Callable(t)
  /\ \E token \in Tokens :
       defaultHeaders' =
         Spread(defaultHeaders, OneHeader("Authorization", Bearer(token)))
  /\ calls' = [calls EXCEPT ![t] = NewFrame("setAuthToken")]
  /\ UNCHANGED <<context, ctxs, factoryVars, helperVars>>

clearAuthToken(t) ==
  /\ Callable(t)
  /\ defaultHeaders' = Delete(defaultHeaders, "Authorization")
  /\ calls' = [calls EXCEPT ![t] = NewFrame("clearAuthToken")]
  /\ UNCHANGED <<context, ctxs, factoryVars, helperVars>>

\* get and delete, called with one of `inputs`: the options as given
verbFrom(t, op, inputs) ==
  /\ Callable(t)
  /\ \E in \in inputs :
       calls' = [calls EXCEPT ![t] =
         makeRequest(NewFrame(op), Method(op), in.url, in.options)]
  /\ UNCHANGED <<context, defaultHeaders, ctxs, factoryVars, helperVars>>

verb(t, op) == verbFrom(t, op, CallInputs)

\* post, put and patch: { ...options, data }
verbWithData(t, op) ==
  /\ Callable(t)
  /\ \E in \in CallInputs, data \in DataValues :
       calls' = [calls EXCEPT ![t] =
         makeRequest(NewFrame(op), Method(op), in.url,
                     Spread(in.options, [data |-> data]))]
  /\ UNCHANGED <<context, defaultHeaders, ctxs, factoryVars, helperVars>>

get(t) == verb(t, "get")
post(t) == verbWithData(t, "post")
put(t) == verbWithData(t, "put")
patch(t) == verbWithData(t, "patch")
delete(t) == verb(t, "delete")

\* uploadFile, to `await this.context.post(url, { multipart })`: its own
\* context check, the file stream, and a post that passes no headers
uploadFile(t) ==
  /\ Callable(t)
  /\ \E fieldName \in FieldNames, additionalData \in AdditionalData :
       calls' = [calls EXCEPT ![t] =
         IF context = 0
         THEN Settle(NewFrame("uploadFile"), Error(NotInitialized))
         ELSE [NewFrame("uploadFile") EXCEPT
                 !.pc = "req_await",
                 !.nstreams = @ + 1,
                 !.args = [url |-> UploadPath, filePath |-> "a.png",
                           fieldName |-> fieldName,
                           additionalData |-> additionalData],
                 !.req = [ctx |-> context, method |-> "POST",
                          url |-> UploadPath,
                          multipart |->
                            Spread(OneHeader(fieldName, ReadStream("a.png")),
                                   additionalData)],
                 !.nsent = @ + 1]]
  /\ UNCHANGED <<context, defaultHeaders, ctxs, factoryVars, helperVars>>

\* healthCheck(), to the await of its get('/health')
healthCheck(t) ==
  /\ Callable(t)
  /\ calls' = [calls EXCEPT ![t] =
       makeRequest([NewFrame("healthCheck") EXCEPT !.wrap = "health"],
                   "GET", HealthPath, NoOptions)]
  /\ UNCHANGED <<context, defaultHeaders, ctxs, factoryVars, helperVars>>

\* waitForApiReady(maxAttempts, delay), to its first await
waitForApiReady(t) ==
  /\ Callable(t)
  /\ \E maxAttempts \in 0..MaxAttemptsBound, delay \in Delays :
       calls' = [calls EXCEPT ![t] =
         waitForApiReadyLoop([NewFrame("waitForApiReady") EXCEPT
                                !.wrap = "ready", !.attempt = 1,
                                !.maxAttempts = maxAttempts, !.delay = delay])]
  /\ UNCHANGED <<context, defaultHeaders, ctxs, factoryVars, helperVars>>

\* the setTimeout fired: attempt++ and the next turn of the loop
delayResume(t) ==
  /\ calls[t].pc = "delay_await"
  /\ calls' = [calls EXCEPT ![t] =
       waitForApiReadyLoop([calls[t] EXCEPT !.attempt = @ + 1])]
  /\ UNCHANGED <<context, defaultHeaders, ctxs, factoryVars, helperVars>>

\* a failed request that also drops the client's context
requestFailsDropsContext(t) ==
  /\ calls[t].pc = "req_await"
  /\ calls' = [calls EXCEPT ![t] =
       Settle([calls[t] EXCEPT !.fault = TRUE], Error(TransportFault))]
  /\ context' = 0
  /\ UNCHANGED <<defaultHeaders, ctxs, factoryVars, helperVars>>

\* the transport rejected the request: the error leaves makeRequest
requestFails(t) ==
  /\ calls[t].pc = "req_await"
  /\ calls' = [calls EXCEPT ![t] =
       Settle([calls[t] EXCEPT !.fault = TRUE], Error(TransportFault))]
  /\ UNCHANGED <<context, defaultHeaders, ctxs, factoryVars, helperVars>>

\* the transport returned one of `responses`: processResponse, to the await
\* of the body read
responseArrivesFrom(t, responses) ==
  /\ calls[t].pc = "req_await"
  /\ \E r \in responses :
       calls' = [calls EXCEPT ![t].pc = "body_await", ![t].resp = r]
  /\ UNCHANGED <<context, defaultHeaders, ctxs, factoryVars, helperVars>>

responseArrives(t) == responseArrivesFrom(t, Responses)

\* the body read settled as one of `bodies`: the envelope is returned
bodyResumeFrom(t, bodies) ==
  /\ calls[t].pc = "body_await"
  /\ \E b \in bodies :
       calls' = [calls EXCEPT ![t] =
         Settle([calls[t] EXCEPT !.body = b],
                processResponse(calls[t].resp, b.text, b.readFails))]
  /\ UNCHANGED <<context, defaultHeaders, ctxs, factoryVars, helperVars>>

bodyResume(t) == bodyResumeFrom(t, Bodies)

\* ------------------------------------------------ the test data factory
\* (src/unnamed/part_003, class TestDataFactory)

\* the values of Math.floor(Math.random() * n)
RandomInt(n) == 0..(n - 1)

\* the two ends of that range
Extremes(n) == {0, n - 1}

FirstNames ==
  << "Alex", "Jamie", "Taylor", "Jordan", "Casey", "Riley", "Morgan", "Drew",
     "Sam", "Avery", "Quinn", "Blake", "Sage", "River", "Rowan", "Skylar" >>

LastNames ==
  << "Smith", "Johnson", "Williams", "Brown", "Jones", "Garcia", "Miller",
     "Davis", "Rodriguez", "Martinez", "Hernandez", "Lopez", "Gonzalez",
     "Wilson", "Anderson", "Thomas", "Taylor", "Moore", "Jackson", "Martin" >>

Genres ==
  << "Rock", "Pop", "Jazz", "Blues", "Country", "Electronic", "Hip Hop",
     "Classical", "Folk", "Reggae", "R&B", "Indie", "Alternative", "Metal" >>

Instruments ==
  << "Guitar", "Bass", "Drums", "Piano", "Keyboard", "Violin", "Saxophone",
     "Trumpet", "Flute", "Clarinet", "Vocals", "Cello", "Harmonica", "Ukulele" >>

Roles == << "Lead Vocalist", "Guitarist", "Bassist", "Drummer", "Keyboardist" >>

\* String.prototype.toLowerCase on the first names
ToLowerCase(s) ==
  CASE s = "Alex" -> "alex" [] s = "Jamie" -> "jamie"
    [] s = "Taylor" -> "taylor" [] s = "Jordan" -> "jordan"
    [] s = "Casey" -> "casey" [] s = "Riley" -> "riley"
    [] s = "Morgan" -> "morgan" [] s = "Drew" -> "drew"
    [] s = "Sam" -> "sam" [] s = "Avery" -> "avery"
    [] s = "Quinn" -> "quinn" [] s = "Blake" -> "blake"
    [] s = "Sage" -> "sage" [] s = "River" -> "river"
    [] s = "Rowan" -> "rowan" [] s = "Skylar" -> "skylar"

\* names[Math.floor(Math.random() * names.length)], r being the floor
getRandomFirstName(r) == FirstNames[r + 1]
getRandomLastName(r) == LastNames[r + 1]

\* `${areaCode}-${exchange}-${number}`, r being the three floors
generatePhoneNumber(r) == <<r[1] + 100, "-", r[2] + 100, "-", r[3] + 1000>>

\* the outcomes of the three draws of a phone number that are followed
PhoneDraws == {<<0, 0, 0>>, <<899, 899, 8999>>}

\* list.slice(0, count)
Slice(list, count) ==
  SubSeq(list, 1, IF count < Len(list) THEN count ELSE Len(list))

\* [...list].sort(() => 0.5 - Math.random()): some permutation of the list;
\* the ones followed are a rotation by `rot`, reversed when `rev`
Sort(list, d) ==
  LET n == Len(list)
      rotated == [i \in 1..n |-> list[((i - 1 + d.rot) % n) + 1]]
  IN IF d.rev THEN [i \in 1..n |-> rotated[n + 1 - i]] ELSE rotated

ShuffleDraws ==
  { [rot |-> 0, rev |-> FALSE], [rot |-> 9, rev |-> FALSE],
    [rot |-> 3, rev |-> TRUE] }

getRandomGenres(count, d) == Slice(Sort(Genres, d), count)

\* getRandomInstruments drawing one instrument and repeating it
getRandomInstrumentsRepeats(count, d) ==
  [i \in 1..count |-> Instruments[d.rot + 1]]

getRandomInstruments(count, d) == Slice(Sort(Instruments, d), count)

\* the first and last name draws of the band members, by member: all the
\* same, or different from one member to the next
MemberNameDraws ==
  { [i \in 1..6 |-> [first |-> 0, last |-> 0]],
    [i \in 1..6 |-> [first |-> i, last |-> 19 - i]] }

\* generateBandMembers: d.members is the floor of Math.random() * 4
generateBandMembers(d) ==
  LET memberCount == d.members + 2
      instruments == getRandomInstruments(memberCount, d.instr)
  IN [i \in 1..memberCount |->
        [name |-> <<getRandomFirstName(d.names[i].first), " ",
                    getRandomLastName(d.names[i].last)>>,
         instrument |-> instruments[i],
         role |-> IF i <= Len(Roles) THEN Roles[i] ELSE "Musician"]]

\* the draws every generateUser call makes: names and phone number, all at
\* the low end or all at the high end
BaseDraws ==
  { [first |-> 0, last |-> 0, phone |-> <<0, 0, 0>>],
    [first |-> 15, last |-> 19, phone |-> <<899, 899, 8999>>] }

GenreDraws == {[rot |-> 0, rev |-> FALSE], [rot |-> 3, rev |-> TRUE]}

\* the random draws of one generateUser(userType) call
UserDraws(userType) ==
  IF userType = "band"
  THEN { Spread(b, x) : b \in BaseDraws,
           x \in [genres : GenreDraws, instr : ShuffleDraws,
                  members : RandomInt(4), names : MemberNameDraws] }
  ELSE IF userType = "solo_artist"
       THEN { Spread(b, x) : b \in BaseDraws,
                x \in [genres : GenreDraws, instr : ShuffleDraws] }
       ELSE BaseDraws

\* the email without Date.now()
EmailNoTime(firstName, now) ==
  <<"test-", ToLowerCase(firstName), "@example.amazonses.com">>

\* `test-${firstName.toLowerCase()}-${Date.now()}@example.amazonses.com`
Email(firstName, now) ==
  <<"test-", ToLowerCase(firstName), "-", now, "@example.amazonses.com">>

UserTypes == <<"fan", "band", "solo_artist">>

\* what callers outside the type checker pass as well
OtherTypes == {"standard", "admin", "artist"}

\* generateUser giving a band instruments of its own as well
generateUserBandInstruments(userType, now, d) ==
  LET firstName == getRandomFirstName(d.first)
      lastName == getRandomLastName(d.last)
      userData ==
        [firstName |-> firstName, lastName |-> lastName,
         email |-> Email(firstName, now),
         phone |-> generatePhoneNumber(d.phone),
         password |-> "TestPassword123!", userType |-> userType]
  IN IF userType = "band"
     THEN Spread(userData, [genre |-> getRandomGenres(2, d.genres),
                            instruments |-> getRandomInstruments(2, d.instr),
                            bandMembers |-> generateBandMembers(d)])
     ELSE IF userType = "solo_artist"
          THEN Spread(userData,
                      [genre |-> getRandomGenres(1, d.genres),
                       instruments |-> getRandomInstruments(2, d.instr)])
          ELSE userData

\* generateUser(userType), Date.now() reading `now`, with the draws d
generateUser(userType, now, d) ==
  LET firstName == getRandomFirstName(d.first)
      lastName == getRandomLastName(d.last)
      userData ==
        [firstName |-> firstName, lastName |-> lastName,
         email |-> Email(firstName, now),
         phone |-> generatePhoneNumber(d.phone),
         password |-> "TestPassword123!", userType |-> userType]
  IN IF userType = "band"
     THEN Spread(userData, [genre |-> getRandomGenres(2, d.genres),
                            bandMembers |-> generateBandMembers(d)])
     ELSE IF userType = "solo_artist"
          THEN Spread(userData,
                      [genre |-> getRandomGenres(1, d.genres),
                       instruments |-> getRandomInstruments(2, d.instr)])
          ELSE userData

\* generateUsers alternating between two types only
generateUsersTwoTypes(count, nows, ds) ==
  [i \in 1..count |-> generateUser(UserTypes[((i - 1) % 2) + 1], nows[i], ds[i])]

\* generateUsers(count): the i-th turn of the loop (from 0) reads the clock
\* as nows[i + 1] and draws ds[i + 1]
generateUsers(count, nows, ds) ==
  [i \in 1..count |->
     generateUser(UserTypes[((i - 1) % Len(UserTypes)) + 1], nows[i], ds[i])]

\* the draws followed through generateUsers: every turn at the low end,
\* every turn at the high end, or the two in turn
LowDraws ==
  [first |-> 0, last |-> 0, phone |-> <<0, 0, 0>>,
   genres |-> [rot |-> 0, rev |-> FALSE], instr |-> [rot |-> 0, rev |-> FALSE],
   members |-> 0, names |-> [i \in 1..6 |-> [first |-> 0, last |-> 0]]]

HighDraws ==
  [first |-> 15, last |-> 19, phone |-> <<899, 899, 8999>>,
   genres |-> [rot |-> 3, rev |-> TRUE], instr |-> [rot |-> 9, rev |-> FALSE],
   members |-> 3, names |-> [i \in 1..6 |-> [first |-> i, last |-> 19 - i]]]

UsersDraws(count) ==
  { [i \in 1..count |-> LowDraws], [i \in 1..count |-> HighDraws],
    [i \in 1..count |-> IF i % 2 = 1 THEN LowDraws ELSE HighDraws] }

\* when the clock moves on during the loop of generateUsers: at no turn, or
\* by a millisecond before the turn k
Advances(count) ==
  {[i \in 1..count |-> 0]} \cup
    {[i \in 1..count |-> IF i = k THEN 1 ELSE 0] : k \in 1..count}

Titles ==
  << "Summer Music Festival", "Rock Night", "Jazz Evening", "Acoustic Session",
     "Electronic Beats", "Country Roads", "Indie Showcase", "Metal Mayhem",
     "Blues Brothers", "Pop Paradise", "Folk Tales", "Classical Concert" >>

Descriptions ==
  << "Join us for an unforgettable night of live music and entertainment.",
     "Experience the best local talent in an intimate venue setting.",
     "A celebration of music that will leave you wanting more.",
     "Don't miss this incredible showcase of musical artistry.",
     "An evening filled with amazing performances and great vibes." >>

Venues ==
  << "The Music Hall", "Downtown Theater", "Rock Palace", "Jazz Lounge",
     "Concert Arena", "The Stage", "Music Box", "Harmony Hall",
     "Sound Stage", "The Venue", "Live House", "Performance Center" >>

StreetNames ==
  << "Main St", "Oak Ave", "Park Blvd", "First St", "Broadway",
     "Center St", "Church St", "Music Ave", "Concert Dr", "Harmony Ln" >>

Cities ==
  << "Austin", "Nashville", "Los Angeles", "New York", "Chicago",
     "Seattle", "Portland", "Denver", "Atlanta", "Miami" >>

States == << "TX", "TN", "CA", "NY", "IL", "WA", "OR", "CO", "GA", "FL" >>

\* getRandomTime: r is the floor of Math.random() * 12, half is
\* Math.random() > 0.5
getRandomTime(r, half) ==
  LET hours == r + 7
      minutes == IF half THEN "00" ELSE "30"
      period == IF hours <= 11 THEN "PM" ELSE "AM"
      displayHour == IF hours > 12 THEN hours - 12 ELSE hours
  IN <<displayHour, ":", minutes, " ", period>>

\* the draws of generateEvent other than the number of days: all at the low
\* end, or all at the high end
EventDraws ==
  { [title |-> 0, description |-> 0, hour |-> 0, half |-> FALSE, venue |-> 0,
     streetNumber |-> 0, street |-> 0, city |-> 0, state |-> 0, zip |-> 0,
     price |-> 0, capacity |-> 0, genres |-> [rot |-> 0, rev |-> FALSE]],
    [title |-> 11, description |-> 4, hour |-> 11, half |-> TRUE, venue |-> 11,
     streetNumber |-> 9998, street |-> 9, city |-> 9, state |-> 9,
     zip |-> 89999, price |-> 99, capacity |-> 499,
     genres |-> [rot |-> 3, rev |-> TRUE]] }

\* the hours of a day
HoursPerDay == 24

\* A time is a number of hours since a midnight UTC; `offset` is the hours
\* the process's zone is ahead of UTC at that time.
\* Date.prototype.getDate: the local calendar day
getDate(time, offset) == (time + offset) \div HoursPerDay

\* Date.prototype.setDate(day): the same local time of day on local calendar
\* day `day` (months roll over), in the zone offset that holds on that day
setDate(time, offset, day, offsetThen) ==
  day * HoursPerDay + ((time + offset) % HoursPerDay) - offsetThen

\* toISOString().split('T')[0]: the calendar day in UTC
toISODate(time) == time \div HoursPerDay

\* eventDate = new Date(); eventDate.setDate(eventDate.getDate() + days)
eventDate(now, tz, days, shift) ==
  setDate(now, tz.offset, getDate(now, tz.offset) + days, tz.offset + shift)

\* generateEvent() called at `now` in the zone tz: days is the floor of
\* Math.random() * 30, shift the change of the zone's offset between the
\* day of the call and the event's day
generateEvent(now, tz, days, shift, d) ==
  [title |-> <<Titles[d.title + 1], " Concert">>,
   description |-> Descriptions[d.description + 1],
   date |-> toISODate(eventDate(now, tz, days + 1, shift)),
   time |-> getRandomTime(d.hour, d.half),
   venue |-> Venues[d.venue + 1],
   address |-> <<d.streetNumber + 1, " ", StreetNames[d.street + 1]>>,
   city |-> Cities[d.city + 1],
   state |-> States[d.state + 1],
   zipCode |-> d.zip + 10000,
   ticketPrice |-> d.price + 20,
   capacity |-> d.capacity + 50,
   genre |-> getRandomGenres(1, d.genres)]

\* the time zones a process may run in: the offset from UTC at the time of
\* the call, and the changes of that offset (daylight saving) that can fall
\* within the next 30 days
Zones ==
  { [name |-> "UTC", offset |-> 0, shifts |-> {0}],
    [name |-> "Europe/London", offset |-> 0, shifts |-> {0, 1}],
    [name |-> "America/New_York", offset |-> -4, shifts |-> {0, -1}],
    [name |-> "Asia/Tokyo", offset |-> 9, shifts |-> {0}] }

UTC == [name |-> "UTC", offset |-> 0, shifts |-> {0}]

\* the times of the calls followed in the runs of generateEvent: 00h, 08h
\* and 23h UTC of the day after the origin
CallHours == {24, 32, 47}

\* no call made on the factory yet
NoCall == [op |-> "none", userType |-> "", count |-> 0, at |-> 0, out |-> <<>>]

\* the factory at rest: the state of the runs that do not use it
FactoryIdle ==
  /\ clock = [hour |-> 24, ms |-> 0]
  /\ zone = UTC
  /\ issued = <<>>
  /\ returned = NoCall

\* the clock moves on by a millisecond
tick ==
  /\ clock.ms < MaxTicks
  /\ clock' = [clock EXCEPT !.ms = @ + 1]
  /\ UNCHANGED <<zone, issued, returned, clientVars, helperVars>>

\* what a generateUser call leaves in the history of emails
Issued(user, now) == [first |-> user.firstName, now |-> now, email |-> user.email]

\* a call of generateUser(userType)
callGenerateUser ==
  /\ Len(issued) < MaxIssued
  /\ \E userType \in {UserTypes[i] : i \in DOMAIN UserTypes} \cup OtherTypes :
     \E d \in UserDraws(userType) :
       LET user == generateUser(userType, clock, d)
       IN /\ returned' = [op |-> "generateUser", userType |-> userType,
                          count |-> 0, at |-> clock.hour, out |-> user]
          /\ issued' = Append(issued, Issued(user, clock))
  /\ UNCHANGED <<clock, zone, clientVars, helperVars>>

\* the clock readings of `count` turns of a loop that starts at `from`, each
\* turn `adv[i]` ms after the one before
Readings(from, count, adv) ==
  [i \in 1..count |->
     [from EXCEPT !.ms = @ + Cardinality({j \in 1..i : adv[j] = 1})]]

\* a call of generateUsers(count)
callGenerateUsers ==
  \E count \in 0..MaxCount :
    /\ Len(issued) + count <= MaxIssued
    /\ \E ds \in UsersDraws(count), adv \in Advances(count) :
         LET nows == Readings(clock, count, adv)
             users == generateUsers(count, nows, ds)
         IN /\ \A i \in 1..count : nows[i].ms <= MaxTicks
            /\ returned' = [op |-> "generateUsers", userType |-> "",
                            count |-> count, at |-> clock.hour, out |-> users]
            /\ issued' =
                 issued \o [i \in 1..Len(users) |-> Issued(users[i], nows[i])]
            /\ clock' = IF count = 0 THEN clock ELSE nows[count]
    /\ UNCHANGED <<zone, clientVars, helperVars>>

\* a call of generateEvent()
callGenerateEvent ==
  /\ \E days \in RandomInt(30), shift \in zone.shifts, d \in EventDraws :
       returned' = [op |-> "generateEvent", userType |-> "", count |-> 0,
                    at |-> clock.hour,
                    out |-> generateEvent(clock.hour, zone, days, shift, d)]
  /\ UNCHANGED <<clock, zone, issued, clientVars, helperVars>>

\* ------------------------------------------------------ TestUtils.retry
\* (src/README.md, class TestUtils)

\* Math.pow(2, n)
RECURSIVE Pow2(_)
Pow2(n) == IF n = 0 THEN 1 ELSE 2 * Pow2(n - 1)

\* the baseDelay argument of retry, in ms
BaseDelays == {0, 10, 1000}

\* the errors fn rejects with: Error objects, as the catch block's
\* `error as Error` and its use of lastError.message take them to be
FnErrors == {"e1", "e2"}

NoRetry ==
  [ pc |-> "idle", maxAttempts |-> 0, baseDelay |-> 0,
    attempt |-> 0,          \* the loop variable
    lastError |-> Undefined,
    outcomes |-> <<>>,      \* how each fn() call settled: "ok" or its error
    waits |-> <<>>,         \* the delays awaited, in order
    result |-> Pending ]

\* the for loop of retry from its condition: the next fn() call, or the
\* `throw lastError!` after the loop
retryLoop(r) ==
  IF r.attempt <= r.maxAttempts
  THEN [r EXCEPT !.pc = "fn_await"]
  ELSE [r EXCEPT !.pc = "done", !.result = Error(r.lastError)]

\* a catch block that waits baseDelay before every new attempt
retryCatchFixedDelay(r, error) ==
  LET q == [r EXCEPT !.lastError = error, !.outcomes = Append(@, error)]
  IN IF q.attempt = q.maxAttempts
     THEN [q EXCEPT !.pc = "done", !.result = Error(q.lastError)]
     ELSE [q EXCEPT !.pc = "wait_await",
                    !.waits = Append(@, q.baseDelay)]

\* the catch block of retry: break and throw on the last attempt, else wait
\* baseDelay * 2^(attempt - 1)
retryCatch(r, error) ==
  LET q == [r EXCEPT !.lastError = error, !.outcomes = Append(@, error)]
  IN IF q.attempt = q.maxAttempts
     THEN [q EXCEPT !.pc = "done", !.result = Error(q.lastError)]
     ELSE [q EXCEPT !.pc = "wait_await",
                    !.waits = Append(@, q.baseDelay * Pow2(q.attempt - 1))]

\* retry(fn, maxAttempts, baseDelay), to its first await
retry ==
  /\ retryCall.pc \in {"idle", "done"}
  /\ \E maxAttempts \in 0..MaxAttemptsBound, baseDelay \in BaseDelays :
       retryCall' = retryLoop([NoRetry EXCEPT !.attempt = 1,
                                              !.maxAttempts = maxAttempts,
                                              !.baseDelay = baseDelay])
  /\ UNCHANGED <<listeners, dialog, clientVars, factoryVars>>

\* fn() resolved: `return await fn()`
fnResolves ==
  /\ retryCall.pc = "fn_await"
  /\ retryCall' = [retryCall EXCEPT !.pc = "done", !.result = [kind |-> "value"],
                                    !.outcomes = Append(@, "ok")]
  /\ UNCHANGED <<listeners, dialog, clientVars, factoryVars>>

\* fn() rejected: the catch block
fnRejects ==
  /\ retryCall.pc = "fn_await"
  /\ \E error \in FnErrors : retryCall' = retryCatch(retryCall, error)
  /\ UNCHANGED <<listeners, dialog, clientVars, factoryVars>>

\* the setTimeout of wait fired: attempt++ and the loop condition
waitResume ==
  /\ retryCall.pc = "wait_await"
  /\ retryCall' = retryLoop([retryCall EXCEPT !.attempt = @ + 1])
  /\ UNCHANGED <<listeners, dialog, clientVars, factoryVars>>

\* ------------------------------------------------- BasePage.handleDialog
\* (src/unnamed/part_006)

DialogTypes == {"alert", "confirm", "prompt"}

\* the promptText argument: absent, the empty string, a text
PromptTexts == {Undefined, "''", "hi"}

Accept(text) == [action |-> "accept", text |-> text]
Dismiss == [action |-> "dismiss", text |-> Undefined]

\* the listener a handleDialog(accept, promptText) call registers, run on a
\* dialog of the type: what it asks of the dialog
listener(l, type) ==
  IF type = "prompt" /\ Truthy(l.promptText) THEN Accept(l.promptText)
  ELSE IF l.accept THEN Accept(Undefined)
  ELSE Dismiss

NoDialog == [type |-> "none", handlers |-> <<>>, asked |-> <<>>, answer |-> Dismiss]

\* handleDialog(accept, promptText): this.page.on('dialog', ...) adds a
\* listener to those already registered
handleDialog ==
  /\ Len(listeners) < MaxHandlers
  /\ \E accept \in BOOLEAN, promptText \in PromptTexts :
       listeners' = Append(listeners, [accept |-> accept, promptText |-> promptText])
  /\ UNCHANGED <<retryCall, dialog, clientVars, factoryVars>>

\* a dialog appears: the page emits 'dialog' to its listeners in the order
\* of registration, and each runs up to its accept() or dismiss() call.  The
\* first call answers the dialog; the engine rejects a call on a dialog that
\* is already handled, and dismisses a dialog no listener is registered for.
dialogAppears ==
  /\ \E type \in DialogTypes :
       LET asked == [i \in DOMAIN listeners |-> listener(listeners[i], type)]
       IN dialog' = [type |-> type, handlers |-> listeners, asked |-> asked,
                     answer |-> IF asked = <<>> THEN Dismiss ELSE asked[1]]
  /\ UNCHANGED <<retryCall, listeners, clientVars, factoryVars>>

\* the helpers at rest: the state of the runs that do not use them
HelpersIdle ==
  /\ retryCall = NoRetry
  /\ listeners = <<>>
  /\ dialog = NoDialog

\* the client of the runs that only use the factory
ClientIdle ==
  /\ context = 0
  /\ defaultHeaders = constructor(EmptyHeaders)
  /\ ctxs = <<>>
  /\ calls = [t \in Tasks |-> Idle]

\* a client constructed without headers, the factory and the helpers at rest
StartInit == ClientIdle /\ FactoryIdle /\ HelpersIdle

\* one retry call after another
RetryNext == retry \/ fnResolves \/ fnRejects \/ waitResume

RetrySpec == StartInit /\ [][RetryNext]_vars

\* one page object, its handleDialog calls and the dialogs of its page
DialogNext == handleDialog \/ dialogAppears

DialogSpec == StartInit /\ [][DialogNext]_vars

\* one process generating users
FactoryInit == ClientIdle /\ FactoryIdle /\ HelpersIdle

FactoryNext == tick \/ callGenerateUser \/ callGenerateUsers

FactorySpec == FactoryInit /\ [][FactoryNext]_vars

\* processes in the zones, generating events at the call hours
EventInit ==
  /\ ClientIdle
  /\ HelpersIdle
  /\ clock \in [hour : CallHours, ms : {0}]
  /\ zone \in Zones
  /\ issued = <<>>
  /\ returned = NoCall

EventNext == callGenerateEvent

EventSpec == EventInit /\ [][EventNext]_vars

\* ---------------------------------------------------------- specifications

Init ==
  /\ context = 0
  /\ defaultHeaders \in {constructor(h) : h \in CtorHeaders}
  /\ ctxs = <<>>
  /\ calls = [t \in Tasks |-> Idle]
  /\ FactoryIdle
  /\ HelpersIdle

Step(t) ==
  \/ init(t) \/ initResume(t) \/ initFails(t)
  \/ dispose(t) \/ disposeResume(t) \/ disposeFails(t)
  \/ setAuthToken(t) \/ clearAuthToken(t)
  \/ get(t) \/ post(t) \/ put(t) \/ patch(t) \/ delete(t)
  \/ uploadFile(t)
  \/ healthCheck(t) \/ waitForApiReady(t) \/ delayResume(t)
  \/ requestFails(t) \/ responseArrives(t) \/ bodyResume(t)

\* one caller, awaiting each call before it makes the next
Next == \E t \in SeqTasks : Step(t)

Spec == Init /\ [][Next]_vars

\* the constructor arguments of the runs that follow the headers: also one
\* that overrides a built-in header
HeaderCtorHeaders ==
  CtorHeaders \cup {OneHeader("Content-Type", <<"text", "/", "plain">>)}

\* in those runs the transport answers every request the same way
HeaderResponses == {[status |-> 200, headers |-> OneHeader("content-type", Json)]}
HeaderBodies == {[text |-> JsonBody, readFails |-> FALSE]}

\* the caller that changes the token while the other's requests are in flight
Mutators == {2}

HeaderInit ==
  /\ context = 0
  /\ defaultHeaders \in {constructor(h) : h \in HeaderCtorHeaders}
  /\ ctxs = <<>>
  /\ calls = [t \in Tasks |-> Idle]
  /\ FactoryIdle
  /\ HelpersIdle

\* one caller making verb requests without awaiting the token changes that
\* another caller makes meanwhile
HeaderNext ==
  \/ \E t \in SeqTasks :
        \/ init(t) \/ initResume(t)
        \/ get(t) \/ post(t) \/ put(t) \/ patch(t) \/ delete(t)
        \/ requestFails(t)
        \/ responseArrivesFrom(t, HeaderResponses)
        \/ bodyResumeFrom(t, HeaderBodies)
  \/ \E t \in Mutators : setAuthToken(t) \/ clearAuthToken(t)

HeaderSpec == HeaderInit /\ [][HeaderNext]_vars

\* the callers that close the client, and the one whose requests are in
\* flight while the sequential caller opens and closes it
Closers == {1, 2}
Requesters == {2}

\* callers that do not await each other: init from one, dispose from both,
\* requests (a path, no options) and uploads from the other
RaceNext ==
  \/ \E t \in SeqTasks : init(t) \/ initResume(t) \/ initFails(t)
  \/ \E t \in Closers : dispose(t) \/ disposeResume(t) \/ disposeFails(t)
  \/ \E t \in Requesters :
        \/ verbFrom(t, "get", {[url |-> ItemsPath, options |-> NoOptions]})
        \/ uploadFile(t)
        \/ requestFails(t)
        \/ responseArrivesFrom(t, HeaderResponses)
        \/ bodyResumeFrom(t, HeaderBodies)

RaceSpec == Init /\ [][RaceNext]_vars

\* what a pending waitForApiReady does next: a timer fires, the transport
\* settles the poll's request, the body read settles
ReadySettles(t) ==
  \/ requestFails(t)
  \/ responseArrivesFrom(t, HeaderResponses)
  \/ bodyResumeFrom(t, HeaderBodies)
  \/ delayResume(t)

\* one caller waiting for readiness while the sequential caller opens and
\* closes the client and sets the token; a poll is answered with 200 or fails
ReadyNext ==
  \/ \E t \in SeqTasks :
        \/ init(t) \/ initResume(t)
        \/ dispose(t) \/ disposeResume(t)
        \/ setAuthToken(t)
  \/ \E t \in Requesters : waitForApiReady(t) \/ ReadySettles(t)

ReadySpec == StartInit /\ [][ReadyNext]_vars

\* the event loop runs every timer that is due and the transport settles
\* every request it was handed (each carries a timeout)
ReadyFairSpec ==
  ReadySpec /\ \A t \in Requesters : WF_vars(ReadySettles(t))

\* ------------------------------------------------------------ properties

RequestOps == VerbOps \cup {"uploadFile"}

\* C1: get, post, put, patch, delete and uploadFile called while the client
\* has no context fail with 'API client not initialized'; nothing is handed
\* to the transport and uploadFile opens no file stream.
C1_NotInitializedFailsWithoutDispatch ==
  \A t \in Tasks :
    LET f == calls[t]
    IN (f.op \in RequestOps /\ f.ctxAtCall = 0) =>
         /\ f.pc = "done"
         /\ f.result = Error(NotInitialized)
         /\ f.nsent = 0
         /\ f.req = NoReq
         /\ f.nstreams = 0

\* uploadFile has failed on a client whose only context was disposed
C1_Witness ==
  \E t \in Tasks :
    /\ calls[t].op = "uploadFile"
    /\ calls[t].pc = "done"
    /\ calls[t].ctxAtCall = 0
    /\ calls[t].result = Error(NotInitialized)
    /\ ctxs # <<>>
    /\ OpenContexts = {}

\* C2: at most one transport context created by the client is open, also
\* after init is called while a context is already open.
C2_AtMostOneOpenContext == Cardinality(OpenContexts) <= 1

\* C3: dispose on a client without a context does nothing and raises no
\* error, and no context is released more than once in a sequential run.
C3_DisposeIdempotent ==
  /\ \A t \in Tasks :
       LET f == calls[t]
       IN (f.op = "dispose" /\ f.ctxAtCall = 0) =>
            /\ f.pc = "done"
            /\ f.result = Void
            /\ f.req = NoReq
            /\ context = 0
  /\ \A i \in DOMAIN ctxs : ctxs[i].releases <= 1

\* dispose has returned on a client whose context was already released
C3_Witness ==
  \E t \in Tasks :
    /\ calls[t].op = "dispose"
    /\ calls[t].pc = "done"
    /\ calls[t].ctxAtCall = 0
    /\ calls[t].result = Void
    /\ \E i \in DOMAIN ctxs : ctxs[i].releases = 1

NonInitOps ==
  RequestOps \cup
    {"healthCheck", "waitForApiReady", "setAuthToken", "clearAuthToken"}

C5_UsageErrorNotRetried ==
  \A t \in Tasks :
    LET f == calls[t]
    IN (f.op = "waitForApiReady" /\ f.ctxAtCall = 0) =>
         /\ f.pc = "done"
         /\ f.polls <= 1
         /\ f.sleeps = <<>>

\* C6: a verb method that got a response with status s returns an envelope
\* with status s whose ok flag is true exactly for 200 <= s <= 299.
C6_StatusIsData ==
  \A t \in Tasks :
    LET f == calls[t]
    IN (f.op \in VerbOps /\ f.pc = "done" /\ f.resp # NoResp) =>
         /\ f.result.kind = "envelope"
         /\ f.result.status = f.resp.status
         /\ f.result.ok <=> (f.resp.status \in 200..299)

\* a verb method has returned the envelope of a 404
C6_Witness ==
  \E t \in Tasks :
    /\ calls[t].op \in VerbOps
    /\ calls[t].pc = "done"
    /\ calls[t].resp.status = 404
    /\ calls[t].result.kind = "envelope"
    /\ calls[t].result.status = 404
    /\ ~calls[t].result.ok

ContentTypeOf(headers) ==
  IF "content-type" \in DOMAIN headers THEN headers["content-type"] ELSE <<>>

\* C7: the envelope's data is the parsed JSON for a JSON content-type, the
\* raw text otherwise, and null when reading or parsing fails; the envelope
\* is returned in every case, with the response's status, headers and ok.
C7_BodyDecodingNeverThrows ==
  \A t \in Tasks :
    LET f == calls[t]
        isJson == Includes(ContentTypeOf(f.resp.headers), Json)
        failed == f.body.readFails \/ (isJson /\ f.body.text # JsonBody)
    IN (f.op \in RequestOps /\ f.pc = "done" /\ f.resp # NoResp) =>
         /\ f.result.kind = "envelope"
         /\ f.result.status = f.resp.status
         /\ f.result.headers = f.resp.headers
         /\ f.result.ok = ResponseOk(f.resp.status)
         /\ f.result.data =
              IF failed THEN Null
              ELSE IF isJson THEN Parsed(f.body.text) ELSE Text(f.body.text)

\* an envelope with a null body has been returned for a JSON response whose
\* body does not parse
C7_Witness ==
  \E t \in Tasks :
    /\ calls[t].op \in VerbOps
    /\ calls[t].pc = "done"
    /\ Includes(ContentTypeOf(calls[t].resp.headers), Json)
    /\ calls[t].body = [text |-> "<html>", readFails |-> FALSE]
    /\ calls[t].result.kind = "envelope"
    /\ calls[t].result.data = Null
    /\ calls[t].result.status = 404

\* C8: healthCheck returns a boolean and never an error: true exactly when
\* its GET /health gave an envelope with ok, false for a non-2xx response
\* and for any fault of the request.
C8_HealthCheckNeverThrows ==
  \A t \in Tasks :
    LET f == calls[t]
    IN (f.op = "healthCheck" /\ f.pc = "done") =>
         /\ f.result.kind = "bool"
         /\ f.result.val <=> (f.inner.kind = "envelope" /\ f.inner.ok)
         /\ f.inner.kind = "envelope" =>
              (f.inner.ok <=> f.resp.status \in 200..299)
         /\ (f.fault \/ f.ctxAtCall = 0) => f.result = Bool(FALSE)
         /\ f.nsent <= 1
         /\ f.nsent = 1 => (f.req.method = "GET" /\ f.req.url = HealthPath)

\* healthCheck has returned false after the transport rejected its request
C8_Witness ==
  \E t \in Tasks :
    /\ calls[t].op = "healthCheck"
    /\ calls[t].pc = "done"
    /\ calls[t].fault
    /\ calls[t].inner = Error(TransportFault)
    /\ calls[t].result = Bool(FALSE)

AllFalse(hs) == \A i \in DOMAIN hs : ~hs[i]

\* the first true poll is the last one
FirstTrueIsLast(hs) ==
  /\ hs # <<>>
  /\ hs[Len(hs)]
  /\ \A i \in 1..(Len(hs) - 1) : ~hs[i]

\* what C9 says of a waitForApiReady frame, with `nsleeps` delays on timeout
WaitForApiReadyShape(f, nsleeps) ==
  /\ f.polls <= f.maxAttempts
  /\ Len(f.healths) <= f.polls
  /\ \A i \in DOMAIN f.sleeps : f.sleeps[i] = f.delay
  /\ f.pc = "done" =>
       \/ /\ f.result = Void
          /\ FirstTrueIsLast(f.healths)
          /\ f.polls = Len(f.healths)
          /\ Len(f.sleeps) = f.polls - 1
       \/ /\ f.result = Error(NotReady)
          /\ AllFalse(f.healths)
          /\ f.polls = f.maxAttempts
          /\ Len(f.healths) = f.maxAttempts
          /\ Len(f.sleeps) = nsleeps

\* C9, as stated: at most maxAttempts polls, return at the first true poll,
\* and on timeout exactly maxAttempts polls and maxAttempts - 1 delays.
C9_PollsAndDelays ==
  \A t \in Tasks :
    calls[t].op = "waitForApiReady" =>
      WaitForApiReadyShape(calls[t], calls[t].maxAttempts - 1)

\* C9, amended: the same for maxAttempts >= 1; with maxAttempts = 0 the
\* readiness-timeout error is thrown with no poll and no delay.
C9_PollsAndDelaysPositive ==
  \A t \in Tasks :
    calls[t].op = "waitForApiReady" =>
      WaitForApiReadyShape(calls[t],
        IF calls[t].maxAttempts >= 1 THEN calls[t].maxAttempts - 1 ELSE 0)

\* waitForApiReady(3, 10) has timed out after three false polls and two
\* delays of 10 ms
C9_Witness ==
  \E t \in Tasks :
    /\ calls[t].op = "waitForApiReady"
    /\ calls[t].pc = "done"
    /\ calls[t].maxAttempts = 3
    /\ calls[t].delay = 10
    /\ calls[t].result = Error(NotReady)
    /\ calls[t].healths = <<FALSE, FALSE, FALSE>>
    /\ calls[t].sleeps = <<10, 10>>

\* C10: when the transport rejects the request of a verb call, the call ends
\* with that error after a single dispatch and without an envelope, and the
\* client keeps its context and its default headers.
C10_TransportFaultPropagates ==
  [][\A t \in Tasks :
       (calls[t].op \in VerbOps /\ calls[t].pc = "req_await"
          /\ calls'[t].fault) =>
         /\ calls'[t].pc = "done"
         /\ calls'[t].result = Error(TransportFault)
         /\ calls'[t].nsent = 1
         /\ calls'[t].resp = NoResp
         /\ context' = context
         /\ context' # 0
         /\ defaultHeaders' = defaultHeaders
         /\ ctxs' = ctxs]_vars

\* a verb call has ended with the transport's error on an initialized client
C10_Witness ==
  \E t \in Tasks :
    /\ calls[t].op \in VerbOps
    /\ calls[t].pc = "done"
    /\ calls[t].fault
    /\ calls[t].result = Error(TransportFault)
    /\ calls[t].nsent = 1
    /\ context # 0
    /\ context = calls[t].ctxAtCall

\* the calls that put an HTTP request on the wire
HttpOps == RequestOps \cup {"healthCheck"}

\* a call that has handed an HTTP request to the transport without an
\* Authorization header of its own
SentWithoutOwnAuth(f) ==
  /\ f.op \in HttpOps
  /\ f.nsent >= 1
  /\ "Authorization" \notin DOMAIN f.callHeaders

\* C11: while the token t given to setAuthToken is the client's default
\* Authorization, every request of a verb method, of healthCheck and of
\* uploadFile goes on the wire with Authorization: Bearer t, also when
\* setAuthToken was called after init.
C11_TokenOnEveryRequest ==
  \A t \in Tasks :
    LET f == calls[t]
    IN (SentWithoutOwnAuth(f) /\ "Authorization" \in DOMAIN f.hdrsAtCall) =>
         /\ "Authorization" \in DOMAIN SentHeaders(f.req)
         /\ SentHeaders(f.req)["Authorization"] = f.hdrsAtCall["Authorization"]

\* C12: once clearAuthToken has removed the default Authorization, a
\* request that passes none of its own goes on the wire without an
\* Authorization header, also when the header was among the defaults at
\* init.
C12_NoTokenAfterClear ==
  \A t \in Tasks :
    LET f == calls[t]
    IN (SentWithoutOwnAuth(f) /\ "Authorization" \notin DOMAIN f.hdrsAtCall) =>
         "Authorization" \notin DOMAIN SentHeaders(f.req)

\* C13: the headers of a verb request are those of the moment it was
\* invoked, the client's defaults of that moment under the call's own
\* headers, whatever setAuthToken and clearAuthToken do while the request is
\* in flight; a request invoked after a change has the changed defaults.
C13_HeadersFixedAtInvocation ==
  \A t \in Tasks :
    LET f == calls[t]
    IN (f.op \in VerbOps /\ f.nsent >= 1) =>
         f.req.headers = Spread(f.hdrsAtCall, f.callHeaders)

\* a verb request is in flight with the token of its invocation, which
\* clearAuthToken has since removed from the defaults
C13_Witness ==
  \E t \in Tasks :
    /\ calls[t].op \in VerbOps
    /\ calls[t].pc = "req_await"
    /\ "Authorization" \in DOMAIN calls[t].hdrsAtCall
    /\ "Authorization" \notin DOMAIN defaultHeaders
    /\ calls[t].callHeaders = EmptyHeaders
    /\ calls[t].req.headers["Authorization"] = Bearer("t1")
    /\ \E u \in Tasks : calls[u].op = "clearAuthToken"

\* the value of key k in the merge of a lower and a higher level
Merged(lower, higher, k) == IF k \in DOMAIN higher THEN higher[k] ELSE lower[k]

BuiltInHeaders == Spread(OneHeader("Content-Type", Json), OneHeader("Accept", Json))

\* C14: the headers of a verb request are the merge of three levels: the
\* call's own headers win over the client's defaults, the constructor's
\* headers win over the built-in JSON Content-Type and Accept, and a key a
\* higher level lacks keeps the value of the level below; the transport
\* sends every key of the merge with that value.
C14_HeaderPrecedence ==
  /\ \A h \in HeaderCtorHeaders :
       /\ DOMAIN constructor(h) = (DOMAIN BuiltInHeaders) \cup (DOMAIN h)
       /\ \A k \in DOMAIN constructor(h) :
            constructor(h)[k] = Merged(BuiltInHeaders, h, k)
  /\ \A t \in Tasks :
       LET f == calls[t]
       IN (f.op \in VerbOps /\ f.nsent >= 1) =>
            /\ DOMAIN f.req.headers =
                 (DOMAIN f.hdrsAtCall) \cup (DOMAIN f.callHeaders)
            /\ \A k \in DOMAIN f.req.headers :
                 /\ f.req.headers[k] = Merged(f.hdrsAtCall, f.callHeaders, k)
                 /\ SentHeaders(f.req)[k] = f.req.headers[k]

\* a verb request went out with the call's own Authorization over the
\* default token, the constructor's Content-Type over the built-in one and
\* the built-in Accept
C14_Witness ==
  \E t \in Tasks :
    /\ calls[t].op \in VerbOps
    /\ calls[t].nsent = 1
    /\ calls[t].hdrsAtCall["Content-Type"] = <<"text", "/", "plain">>
    /\ "Authorization" \in DOMAIN calls[t].hdrsAtCall
    /\ calls[t].hdrsAtCall["Authorization"] = Bearer("t1")
    /\ calls[t].callHeaders = OneHeader("Authorization", Bearer("call"))
    /\ SentHeaders(calls[t].req) =
         [k \in {"Authorization", "Content-Type", "Accept"} |->
            CASE k = "Authorization" -> Bearer("call")
              [] k = "Content-Type" -> <<"text", "/", "plain">>
              [] k = "Accept" -> Json]

\* the keys of every user record
BaseKeys == {"firstName", "lastName", "email", "phone", "password", "userType"}

\* the optional keys a user type has
TypeKeys(userType) ==
  CASE userType = "fan" -> {}
    [] userType = "band" -> {"genre", "bandMembers"}
    [] userType = "solo_artist" -> {"genre", "instruments"}

ClosedTypes == {UserTypes[i] : i \in DOMAIN UserTypes}

\* C15: for fan, band and solo_artist, generateUser returns the base fields
\* and exactly the type's optional fields: none for a fan; genre with 2
\* entries and bandMembers for a band; genre with 1 entry and instruments
\* with 2 for a solo_artist; userType is the requested type.
C15_FieldsByType ==
  (returned.op = "generateUser" /\ returned.userType \in ClosedTypes) =>
    LET user == returned.out
    IN /\ DOMAIN user = BaseKeys \cup TypeKeys(returned.userType)
       /\ user.userType = returned.userType
       /\ returned.userType = "band" => Len(user.genre) = 2
       /\ returned.userType = "solo_artist" =>
            (Len(user.genre) = 1 /\ Len(user.instruments) = 2)

\* generateUser('band') has returned a record with two genres and band
\* members and without instruments
C15_Witness ==
  /\ returned.op = "generateUser"
  /\ returned.userType = "band"
  /\ "bandMembers" \in DOMAIN returned.out
  /\ "instruments" \notin DOMAIN returned.out
  /\ Len(returned.out.genre) = 2
  /\ returned.out.userType = "band"

\* the validation error the claim expects for a user type outside the set
InvalidUserType == Error("invalid user type")

\* C16: generateUser called with a user type outside {fan, band,
\* solo_artist} is rejected with a validation error: it returns no record.
C16_InvalidTypeRejected ==
  (returned.op = "generateUser" /\ returned.userType \notin ClosedTypes) =>
    returned.out = InvalidUserType

\* C17: generateUsers(n) returns exactly n records, and the record at index
\* i, counted from 0, has the user type <<fan, band, solo_artist>>[i mod 3].
C17_UsersCycleTypes ==
  returned.op = "generateUsers" =>
    /\ Len(returned.out) = returned.count
    /\ \A i \in 0..(returned.count - 1) :
         returned.out[i + 1].userType =
           <<"fan", "band", "solo_artist">>[(i % 3) + 1]

\* generateUsers(4) has returned a fan, a band, a solo artist and a fan
C17_Witness ==
  /\ returned.op = "generateUsers"
  /\ returned.count = 4
  /\ Len(returned.out) = 4
  /\ returned.out[2].userType = "band"
  /\ returned.out[3].userType = "solo_artist"
  /\ returned.out[4].userType = "fan"

\* C18: a band returned by generateUser('band') has between 2 and 5
\* members, and the members' instruments are pairwise distinct and all from
\* the instrument vocabulary.
C18_BandMembers ==
  (returned.op = "generateUser" /\ returned.userType = "band") =>
    LET members == returned.out.bandMembers
    IN /\ Len(members) >= 2
       /\ Len(members) <= 5
       /\ \A i, j \in DOMAIN members :
            i # j => members[i].instrument # members[j].instrument
       /\ \A i \in DOMAIN members :
            \E k \in DOMAIN Instruments : members[i].instrument = Instruments[k]

\* a band of five has been returned, with the last five instruments of the
\* list
C18_Witness ==
  /\ returned.op = "generateUser"
  /\ returned.userType = "band"
  /\ Len(returned.out.bandMembers) = 5
  /\ returned.out.bandMembers[1].instrument = "Clarinet"
  /\ returned.out.bandMembers[5].instrument = "Ukulele"

\* C19, as stated: the emails of any two generateUser calls of a process
\* differ, whatever the clock read and whatever names were drawn.
C19_EmailsAllDistinct ==
  \A i, j \in DOMAIN issued :
    i # j => issued[i].email # issued[j].email

\* C19, amended: the emails of two generateUser calls differ exactly when
\* their Date.now() readings differ or their first names differ; two calls
\* in the same millisecond that draw the same first name get the same email.
C19_EmailsDistinctByNameAndTime ==
  \A i, j \in DOMAIN issued :
    i # j =>
      (issued[i].email = issued[j].email <=>
         (issued[i].first = issued[j].first /\ issued[i].now = issued[j].now))

\* two calls in the same millisecond drew different first names and got
\* different emails, and two calls a millisecond apart drew the same name
C19_Witness ==
  /\ \E i, j \in DOMAIN issued :
       /\ i < j
       /\ issued[i].now = issued[j].now
       /\ issued[i].first # issued[j].first
       /\ issued[i].email # issued[j].email
  /\ \E i, j \in DOMAIN issued :
       /\ i < j
       /\ issued[i].now # issued[j].now
       /\ issued[i].first = issued[j].first
       /\ issued[i].email # issued[j].email

\* the calendar day of a time, in UTC (as the record's date is) and in a zone
\* `offset` hours ahead of UTC
DayUtc(time) == time \div 24
DayLocal(time, offset) == (time + offset) \div 24

\* C20: the date of the record generateEvent returns is at least 1 day and
\* at most 30 days after the day of the call, whichever of the two calendars,
\* UTC or the process's zone, the day of the call is read in.
C20_EventDateInWindow ==
  returned.op = "generateEvent" =>
    \/ returned.out.date - DayUtc(returned.at) \in 1..30
    \/ returned.out.date - DayLocal(returned.at, zone.offset) \in 1..30

\* a verb call or an upload that handed its request to the transport
Dispatched(f, ops) == f.op \in ops /\ f.nsent > 0

\* C21: the multipart body uploadFile sends carries the file stream under
\* fieldName, and every extra field under its own key, whatever the keys of
\* the extra fields are.
C21_StreamUnderFieldName ==
  \A t \in Tasks :
    LET f == calls[t]
    IN Dispatched(f, {"uploadFile"}) =>
         /\ f.req.multipart[f.args.fieldName] = ReadStream(f.args.filePath)
         /\ \A k \in (DOMAIN f.args.additionalData) \ {f.args.fieldName} :
              f.req.multipart[k] = f.args.additionalData[k]

\* C22: the timeout a verb call hands to the transport is the caller's
\* timeout whenever the caller gave one, 0 included, and 30000 ms otherwise.
C22_TimeoutAsGiven ==
  \A t \in Tasks :
    LET f == calls[t]
    IN Dispatched(f, VerbOps) =>
         f.req.timeout = Field(f.args.options, "timeout", DefaultTimeout)

\* C23: the url a verb call sends is the path, then "?" or "&" (the latter
\* when the path has a "?"), then the encoded parameters; without parameters,
\* or with an empty mapping, it is the path unchanged.
C23_UrlWithParams ==
  \A t \in Tasks :
    LET f == calls[t]
        params == Field(f.args.options, "params", <<>>)
    IN Dispatched(f, VerbOps) =>
         f.req.url =
           IF params = <<>> THEN f.args.url
           ELSE f.args.url
                  \o <<IF Includes(f.args.url, <<"?">>) THEN "&" ELSE "?">>
                  \o SearchParamsToString(params)

\* C29: post, put and patch forward to the transport, as the request data,
\* every body the caller passes other than undefined.
C29_BodyForwarded ==
  \A t \in Tasks :
    LET f == calls[t]
    IN (Dispatched(f, {"post", "put", "patch"})
          /\ f.args.options.data # Undefined) =>
         ("data" \in DOMAIN f.req /\ f.req.data = f.args.options.data)

\* a waitForApiReady call that is over ended on a true poll or, all polls
\* false, on the readiness error after maxAttempts of them
EndedOnSuccessOrExhaustion(f) ==
  f.pc = "done" =>
    \/ /\ f.result = Void
       /\ FirstTrueIsLast(f.healths)
    \/ /\ f.result = Error(NotReady)
       /\ AllFalse(f.healths)
       /\ f.polls = f.maxAttempts
       /\ Len(f.healths) = f.maxAttempts

\* C25: a waitForApiReady call, once started, comes to an end, and it ends
\* only by returning after a true health check or by throwing the readiness
\* error after maxAttempts polls, whatever init, dispose and token changes
\* other callers interleave with its polls and delays.
C25_WaitForApiReadyTerminates ==
  /\ \A t \in Tasks :
       (calls[t].op = "waitForApiReady")
         ~> (calls[t].op = "waitForApiReady" /\ calls[t].pc = "done")
  /\ [](\A t \in Tasks :
          calls[t].op = "waitForApiReady" =>
            EndedOnSuccessOrExhaustion(calls[t]))

\* waitForApiReady(3, 10), started on an open client, has polled with a
\* token set after its start, has met the client disposed at a later poll,
\* and has still run to its third poll and the readiness error
C25_Witness ==
  \E t \in Tasks :
    LET f == calls[t]
    IN /\ f.op = "waitForApiReady"
       /\ f.pc = "done"
       /\ f.maxAttempts = 3
       /\ f.ctxAtCall # 0
       /\ "Authorization" \notin DOMAIN f.hdrsAtCall
       /\ "Authorization" \in DOMAIN f.req.headers
       /\ f.inner = Error(NotInitialized)
       /\ f.polls = 3
       /\ f.sleeps = <<10, 10>>
       /\ f.result = Error(NotReady)

\* C26, as stated: a verb or uploadFile call made once dispose has been
\* invoked, even before it has completed, dispatches nothing and fails with
\* 'API client not initialized'.
C26_NoDispatchOnceDisposeInvoked ==
  \A t \in Tasks :
    LET f == calls[t]
    IN (f.op \in RequestOps /\ f.disposing) =>
         /\ f.pc = "done"
         /\ f.nsent = 0
         /\ f.result = Error(NotInitialized)

\* C26, amended: such a call fails that way only once dispose has completed
\* and the client has no context; made while dispose still awaits the
\* transport, it passes the context check and dispatches its request on the
\* context being disposed.
C26_NoDispatchOnceDisposeCompleted ==
  \A t \in Tasks :
    LET f == calls[t]
    IN f.op \in RequestOps =>
         /\ f.ctxAtCall = 0 =>
              (f.pc = "done" /\ f.nsent = 0 /\ f.result = Error(NotInitialized))
         /\ f.disposing =>
              (f.ctxAtCall # 0 /\ f.nsent = 1 /\ f.req.ctx = f.ctxAtCall)

\* a request made while dispose was awaiting the transport is in flight on a
\* context that has been released since
C26_Witness ==
  \E t \in Tasks :
    LET f == calls[t]
    IN /\ f.op \in RequestOps
       /\ f.disposing
       /\ f.pc = "req_await"
       /\ f.req.ctx = f.ctxAtCall
       /\ ~ctxs[f.req.ctx].open
       /\ context = 0

\* C27: a dispose invoked while an earlier dispose of the same client still
\* awaits the transport does nothing, and the transport releases the context
\* once.
C27_SecondDisposeIsNoOp ==
  /\ \A t \in Tasks :
       LET f == calls[t]
       IN (f.op = "dispose" /\ f.disposing) =>
            /\ f.pc = "done"
            /\ f.result = Void
            /\ f.req = NoReq
  /\ \A i \in DOMAIN ctxs : ctxs[i].releases = IF ctxs[i].open THEN 0 ELSE 1

\* the step on which the init or the dispose of caller t fails
LifecycleFailure(t) ==
  /\ calls[t].pc \in {"init_await", "dispose_await"}
  /\ calls'[t].pc = "done"
  /\ calls'[t].result.kind = "error"

\* C28: a failed init or dispose hands the transport's error to its caller
\* and changes neither the client's context nor the transport's contexts nor
\* the default headers: no context after a failed init on a client that had
\* none, the same context after a failed dispose.
C28_FailureKeepsLifecycleState ==
  [][\A t \in Tasks :
       LifecycleFailure(t) =>
         /\ calls'[t].result = Error(TransportFault)
         /\ context' = context
         /\ ctxs' = ctxs
         /\ defaultHeaders' = defaultHeaders]_vars

\* an init has failed on a client without a context, which still has none,
\* and a dispose has failed on a context that stayed open until a later
\* dispose released it
C28_Witness ==
  \E t, u \in Tasks :
    /\ calls[t].op = "init"
    /\ calls[t].result = Error(TransportFault)
    /\ calls[t].ctxAtCall = 0
    /\ context = 0
    /\ calls[u].op = "dispose"
    /\ calls[u].result = Error(TransportFault)
    /\ ctxs[calls[u].req.ctx].releases = 1

C30_AnsweredOnceByLatestCall ==
  (dialog.type # "none" /\ dialog.handlers # <<>>) =>
    /\ Len(dialog.asked) = 1
    /\ dialog.answer =
         listener(dialog.handlers[Len(dialog.handlers)], dialog.type)

====
